---- MODULE Spec2Model ----
(***************************************************************************)
(* State-machine model of src/app.py, a Streamlit script.  Streamlit runs  *)
(* the whole script from top to bottom once per user event; the state that *)
(* survives between runs is st.session_state (widget values included).     *)
(* One action = one user event followed by the complete rerun (Rerun).     *)
(*                                                                         *)
(* Python str values are modelled as sequences of one-character tokens     *)
(* (amounts) or of word tokens (rendered lines), so that trimming, comma   *)
(* removal, isdigit(), int() and f-string concatenation are computed.      *)
(***************************************************************************)
EXTENDS Integers, Sequences, FiniteSets

VARIABLES
  cards,      \* session_state[hero_c1, hero_c2, flop_1, flop_2, flop_3, turn, river]
  pos_self,   \* value of the self-position selectbox (line 237)
  villains,   \* st.session_state.villains
  flow,       \* st.session_state.flow : street -> rows
  messages,   \* st.session_state.messages
  show_chat,  \* st.session_state.show_chat
  raisedAt,   \* 0: the last run completed; k: it raised in street k's preview
  last,       \* the user event that triggered the last run
  outcomes,   \* advisory outcomes (call_gpt return paths) that have occurred
  steps,      \* events on row widgets so far
  arg,        \* argument of a direct call of a pure function
  ret         \* its result (Pending before the call)

vars == <<cards, pos_self, villains, flow, messages, show_chat, raisedAt,
          last, outcomes, steps, arg, ret>>

----------------------------------------------------------------------------
\* Bounds of the model

\* the catalog is cut to its first NumCards cards (the program has 52)
NumCards == 7
\* opponents added at most
MaxVillains == 3
\* archetypes offered to the add-opponent event (a prefix of ARCHETYPES)
NumTypes == 2
\* events on the row widgets (edit, add, delete) per behaviour
MaxEvents == 3
\* message pairs in the conversation at most
MaxPairs == 2
\* length of a raw amount given to validate_amount
MaxLen == 5
\* length of a raw amount given to normalize_line
MaxLineLen == 2

----------------------------------------------------------------------------
\* Global constants (lines 17-21)

SUITS_ORDER == <<"spade", "club", "diamond", "heart">>
RANKS_ORDER == <<"A", "2", "3", "4", "5", "6", "7", "8", "9", "T", "J", "Q", "K">>
POS_ALL == <<"UTG", "HJ", "CO", "BTN", "SB", "BB">>
ACTIONS_PRE == <<"open", "limp", "call", "fold", "3bet", "4bet", "shove", "check">>
ACTIONS_POST == <<"bet", "check", "call", "raise", "fold", "shove">>
ARCHETYPES == <<"tight-passive", "tight-aggressive", "loose-passive", "loose-aggressive">>
STREETS == <<"pre", "flop", "turn", "river">>
SLOTS == <<"hero_c1", "hero_c2", "flop_1", "flop_2", "flop_3", "turn", "river">>

Range(s) == {s[i] : i \in 1..Len(s)}

\* Python's `x in list` / list.index(x) (1-based here)
IndexOf(s, x) == CHOOSE i \in 1..Len(s) : s[i] = x /\ \A j \in 1..(i-1) : s[j] # x

----------------------------------------------------------------------------
\* Card catalog (lines 77-82, 193-195)

\* [f"{r}{s}" for s, r in product(SUITS_ORDER, RANKS_ORDER)]: suit outer, rank inner
gen_cards ==
  [i \in 1..(Len(SUITS_ORDER) * Len(RANKS_ORDER)) |->
     <<RANKS_ORDER[((i - 1) % Len(RANKS_ORDER)) + 1],
       SUITS_ORDER[((i - 1) \div Len(RANKS_ORDER)) + 1]>>]

ALL_CARDS == SubSeq(gen_cards, 1, NumCards)

\* [c for c in ALL_CARDS if c not in exclude]
selectable_cards(exclude) == SelectSeq(ALL_CARDS, LAMBDA c : c \notin exclude)

\* Python None where a card is expected (session_state.get(key) before the first run)
NoCard == <<>>

\* pick_card falling back to the first card of the whole catalog, whether or not it
\* is among the choices
pick_card_catalog_first(current, choices) ==
  LET cur == IF current \in Range(choices) THEN current ELSE ALL_CARDS[1]
  IN  cur

\* pick_card (lines 198-214): the stored value when it is among the choices, else
\* choices[0]; st.selectbox(index=idx) shows and returns choices[idx].
pick_card(current, choices) ==
  LET cur == IF current \in Range(choices) THEN current ELSE choices[1]
      idx == IndexOf(choices, cur)
  IN  choices[idx]

\* The seven pick_card calls in script order, each on selectable_cards(used_cards)
\* followed by used_cards.add(...) (lines 218-227 and 296-313).
RECURSIVE resolve_slots(_, _)
resolve_slots(stored, done) ==
  IF Len(done) = Len(SLOTS) THEN done
  ELSE resolve_slots(stored,
         Append(done, pick_card(stored[Len(done) + 1],
                                selectable_cards(Range(done)))))

\* used_cards when slot k's pick_card is called
used_cards(cs, k) == {cs[m] : m \in 1..(k - 1)}

----------------------------------------------------------------------------
\* Positions and opponents (lines 237-284)

\* [p for p in POS_ALL if p not in {pos_self} | {v["pos"] for v in villains}]
remaining_positions(ps, vs) ==
  SelectSeq(POS_ALL, LAMBDA p : p \notin ({ps} \cup {vs[i].pos : i \in 1..Len(vs)}))

\* if add_ok and pos_options: villains.append({"pos": vp, "type": vt})
vill_add(ps, vs, vp, vt) ==
  IF remaining_positions(ps, vs) # <<>>
  THEN Append(vs, [pos |-> vp, type |-> vt])
  ELSE vs

\* villains.pop() without the index: the last opponent goes
vill_del_last(vs, i) == SubSeq(vs, 1, Len(vs) - 1)

\* st.session_state.villains.pop(i), i the 0-based index of the clicked button;
\* here i is 1-based
vill_del(vs, i) == SubSeq(vs, 1, i - 1) \o SubSeq(vs, i + 1, Len(vs))

----------------------------------------------------------------------------
\* Amounts and action lines (lines 101-123)

\* One-character tokens of a raw amount.  "sup2" is U+00B2 (superscript two): a
\* character for which str.isdigit() is True and which int() does not accept.
Alphabet == {"0", "2", ",", " ", "-", "a", "sup2"}
Decimals == {"0", "2"}
IsDigitChars == Decimals \cup {"sup2"}
Whitespace == {" "}

\* Python None where a str is expected; no modelled str equals it
None == <<"None">>

\* str.strip()
RECURSIVE lstrip(_)
lstrip(t) == IF t # <<>> /\ Head(t) \in Whitespace THEN lstrip(Tail(t)) ELSE t

RECURSIVE rstrip(_)
rstrip(t) ==
  IF t # <<>> /\ t[Len(t)] \in Whitespace THEN rstrip(SubSeq(t, 1, Len(t) - 1)) ELSE t

strip(t) == rstrip(lstrip(t))

\* str.replace(",", "")
remove_commas(t) == SelectSeq(t, LAMBDA c : c # ",")

\* str.isdigit(): non-empty and every character is a digit character
isdigit(t) == t # <<>> /\ \A i \in 1..Len(t) : t[i] \in IsDigitChars

\* int(t) raises ValueError unless every character is a decimal digit
int_raises(t) == \E i \in 1..Len(t) : t[i] \notin Decimals

DigitValue(c) == IF c = "2" THEN 2 ELSE 0

RECURSIVE int(_)
int(t) == IF t = <<>> THEN 0 ELSE 10 * int(SubSeq(t, 1, Len(t) - 1)) + DigitValue(t[Len(t)])

\* Results of validate_amount: (ok, v), or an exception leaving the function
AmountResult(ok, v) == [exc |-> FALSE, ok |-> ok, v |-> v]
AmountRaise == [exc |-> TRUE, ok |-> FALSE, v |-> None]

validate_amount(txt) ==
  LET t == remove_commas(strip(txt))
  IN  IF t = <<>> THEN AmountResult(TRUE, <<>>)
      ELSE IF ~isdigit(t) THEN AmountResult(FALSE, None)
      ELSE IF int_raises(t) THEN AmountRaise
      ELSE IF int(t) <= 0 THEN AmountResult(FALSE, None)
      ELSE AmountResult(TRUE, t)

\* The message of line 121
AmountError == "amount must be a positive number"

\* Results of normalize_line: (ok, text, err), or validate_amount's exception
LineResult(ok, text, err) == [exc |-> FALSE, ok |-> ok, text |-> text, err |-> err]
LineRaise == [exc |-> TRUE, ok |-> FALSE, text |-> None, err |-> ""]

NoAmountActions == {"check", "fold", "call"}

\* f"{pos} {act} {v}" and f"{pos} {act}": a sequence of tokens, the spaces included
normalize_line(pos, act, amt) ==
  LET needs_amt == act \notin NoAmountActions
      r == validate_amount(amt)
  IN  IF needs_amt
      THEN IF r.exc THEN LineRaise
           ELSE IF ~r.ok THEN LineResult(FALSE, None, AmountError)
           ELSE LineResult(TRUE, <<pos, " ", act, " ">> \o r.v, "")
      ELSE LineResult(TRUE, <<pos, " ", act>>, "")

----------------------------------------------------------------------------
\* Action rows (lines 131-138 and 329-407)

Row(pos, act, amt) == [pos |-> pos, act |-> act, amt |-> amt]

IsPostflop(k) == k > 1

ActionsOf(k) == IF IsPostflop(k) THEN ACTIONS_POST ELSE ACTIONS_PRE

\* st.session_state.flow as first assigned (lines 133-138)
InitialFlow ==
  [s \in Range(STREETS) |->
     CASE s = "pre"   -> <<Row("UTG", "open", <<>>)>>
       [] s = "flop"  -> <<Row("Hero", "bet", <<>>)>>
       [] s = "turn"  -> <<Row("Hero", "check", <<>>)>>
       [] s = "river" -> <<Row("Hero", "bet", <<>>)>>]

\* The row appended by the add button (lines 386-392)
new_row(postflop) ==
  Row(IF postflop THEN "Hero" ELSE "UTG", IF postflop THEN "check" ELSE "open", <<>>)

\* rows.pop(i) for the one index in to_del (lines 381-382); 1-based here
row_pop(rows, i) == SubSeq(rows, 1, i - 1) \o SubSeq(rows, i + 1, Len(rows))

\* rows.insert(0, ...): the new row goes to the front
row_append_front(rows, postflop) == <<new_row(postflop)>> \o rows

\* rows.append(...) (line 386)
row_append(rows, postflop) == Append(rows, new_row(postflop))

RowEventKinds == {"row_pos", "row_act", "row_amt", "row_del", "row_add"}

\* One call street_block(key) up to its preview: the widgets write their values
\* into rows[i], then the deletion, then the addition.  ev is the run's event.
street_rows(k, rows, ev) ==
  LET mine    == ev.kind \in RowEventKinds /\ ev.i = k
      written == IF mine /\ ev.kind = "row_pos" THEN [rows EXCEPT ![ev.j].pos = ev.s]
                 ELSE IF mine /\ ev.kind = "row_act" THEN [rows EXCEPT ![ev.j].act = ev.s]
                 ELSE IF mine /\ ev.kind = "row_amt" THEN [rows EXCEPT ![ev.j].amt = ev.q]
                 ELSE rows
      deleted == IF mine /\ ev.kind = "row_del" THEN row_pop(written, ev.j) ELSE written
  IN  IF mine /\ ev.kind = "row_add" THEN row_append(deleted, IsPostflop(k)) ELSE deleted

\* The preview loop (lines 395-399) leaves street_block by validate_amount's exception
preview_raises(rows) ==
  \E i \in 1..Len(rows) : normalize_line(rows[i].pos, rows[i].act, rows[i].amt).exc

\* " / ".join(out)
RECURSIVE join_lines(_)
join_lines(out) ==
  IF out = <<>> THEN <<>>
  ELSE IF Len(out) = 1 THEN out[1]
  ELSE out[1] \o <<" / ">> \o join_lines(Tail(out))

\* out of build_flow_text.join: the texts of the rows normalize_line accepts, in order
RECURSIVE ok_texts(_)
ok_texts(rows) ==
  IF rows = <<>> THEN <<>>
  ELSE LET r == normalize_line(rows[1].pos, rows[1].act, rows[1].amt)
       IN  (IF r.ok THEN <<r.text>> ELSE <<>>) \o ok_texts(Tail(rows))

FlowPlaceholder == <<"(none)">>

\* build_flow_text.join (lines 412-418)
join(rows) == IF ok_texts(rows) # <<>> THEN join_lines(ok_texts(rows)) ELSE FlowPlaceholder

StreetLabel(k) == <<"#" , STREETS[k], ":">>

FlowRaise == <<"ValueError">>

\* build_flow_text (lines 410-427): label and line of each street, in script order
build_flow_text(fl) ==
  IF \E k \in 1..Len(STREETS) : preview_raises(fl[STREETS[k]])
  THEN FlowRaise
  ELSE StreetLabel(1) \o join(fl["pre"]) \o StreetLabel(2) \o join(fl["flop"])
       \o StreetLabel(3) \o join(fl["turn"]) \o StreetLabel(4) \o join(fl["river"])

----------------------------------------------------------------------------
\* The advisory call and the conversation (lines 31-75 and 431-463)

\* What the environment does to one call of call_gpt
Envs == {"no_key", "provider_error", "reply", "empty_reply"}

\* call_gpt's return value on each of its paths (lines 33-34, 73, 75); the prompt
\* it assembles goes to the provider only
call_gpt(env) ==
  CASE env = "no_key"         -> "warning: OPENAI_API_KEY is not set"
    [] env = "provider_error" -> "LLM call error: e"
    [] env = "reply"          -> "reply"
    [] env = "empty_reply"    -> "(empty reply)"

Msg(role, content) == [role |-> role, content |-> content]

AnalyzeRequest == "please analyze"
MockReply == "(mock) the LLM connection is switched on later"

\* messages = [...]: the two messages replace the history
analyze_reset(msgs, answer) ==
  <<Msg("user", AnalyzeRequest), Msg("assistant", answer)>>

\* only the answer is appended
analyze_answer_only(msgs, answer) == msgs \o <<Msg("assistant", answer)>>

\* The two appends of the analyze handler (lines 446-447)
analyze_append(msgs, answer) ==
  msgs \o <<Msg("user", AnalyzeRequest), Msg("assistant", answer)>>

\* The two appends of the chat input (lines 459-463)
chat_append(msgs, q) == msgs \o <<Msg("user", q), Msg("assistant", MockReply)>>

----------------------------------------------------------------------------
\* One user event and the script run it triggers

\* An event: its kind, the street or slot i, the row j, a word s, a str or card q
Ev(kind, i, j, s, q) == [kind |-> kind, i |-> i, j |-> j, s |-> s, q |-> q]

\* No pure function is being called
NoArg == [fn |-> "none", pos |-> "", act |-> "", amt |-> <<>>]

\* street_block("pre"), ..., street_block("river") in script order (lines 404-407):
\* the rows each call leaves, and the street whose preview ended the run (0: none).
\* A street after the one that raised is not run and keeps its rows.
RECURSIVE run_streets(_, _, _)
run_streets(k, fl, ev) ==
  IF k > Len(STREETS) THEN [flow |-> fl, raisedAt |-> 0]
  ELSE LET rows == street_rows(k, fl[STREETS[k]], ev)
           fl2  == [fl EXCEPT ![STREETS[k]] = rows]
       IN  IF preview_raises(rows) THEN [flow |-> fl2, raisedAt |-> k]
           ELSE run_streets(k + 1, fl2, ev)

\* The events on widgets that the script renders above the street blocks
AboveStreets == {"pick_card", "pos_self", "vill_add", "vill_del"}

\* An event that touches no row widget
NoEvent == Ev("none", 0, 0, "", <<>>)

\* The street blocks of a run.  After an event above the street blocks every row
\* widget returns the value its row already holds, so the blocks leave the rows and
\* the outcome of the previews as the last run left them (StreetsStable states
\* this of every reachable state); the blocks are evaluated for every other event.
streets_of_run(ev) ==
  IF ev.kind \in AboveStreets
  THEN [flow |-> flow, raisedAt |-> raisedAt]
  ELSE run_streets(1, flow, ev)

\* What the model keeps of the event: its kind, the index of a deleted opponent or
\* the street of an added row, the environment of an analysis
LastOf(ev) ==
  [kind |-> ev.kind,
   i    |-> IF ev.kind \in {"vill_del", "row_add"} THEN ev.i ELSE 0,
   s    |-> IF ev.kind = "analyze" THEN ev.s ELSE ""]

Rerun(ev) ==
  LET stored == IF ev.kind = "pick_card" THEN [cards EXCEPT ![ev.i] = ev.q] ELSE cards
      ps     == IF ev.kind = "pos_self" THEN ev.s ELSE pos_self
      added  == IF ev.kind = "vill_add" THEN vill_add(ps, villains, ev.s, ev.q[1])
                ELSE villains
      run    == streets_of_run(ev)
      done   == run.raisedAt = 0
  IN  /\ cards' = resolve_slots(stored, <<>>)
      /\ pos_self' = ps
      /\ villains' = IF ev.kind = "vill_del" THEN vill_del(added, ev.i) ELSE added
      /\ flow' = run.flow
      /\ raisedAt' = run.raisedAt
      /\ messages' = IF done /\ ev.kind = "analyze"
                       THEN analyze_append(messages, call_gpt(ev.s))
                     ELSE IF done /\ show_chat /\ ev.kind = "chat"
                       THEN chat_append(messages, ev.s)
                     ELSE messages
      /\ show_chat' = (show_chat \/ (done /\ ev.kind = "analyze"))
      /\ outcomes' = IF done /\ ev.kind = "analyze" THEN outcomes \cup {ev.s} ELSE outcomes
      /\ last' = LastOf(ev)
      /\ steps' = IF ev.kind \in RowEventKinds THEN steps + 1 ELSE steps
      /\ UNCHANGED <<arg, ret>>

\* A widget of street k is on the page (the last run reached it), and the
\* behaviour has row events left
Rendered(k) == (raisedAt = 0 \/ k <= raisedAt) /\ steps < MaxEvents

\* The inputs the events are drawn from
TypeInputs == {ARCHETYPES[i] : i \in 1..NumTypes}
SelfPosInputs == {"UTG", "BB"}
RowPosInputs == {"Hero", "BTN"}
RowActInputs(k) == IF IsPostflop(k) THEN {"bet", "check"} ELSE {"open", "call"}
AmtInputs == {<<>>, <<"2">>, <<"sup2">>}
ChatInputs == {"why?", AnalyzeRequest}

SelectCard(k, c) ==
  /\ c \notin used_cards(cards, k)
  /\ c # cards[k]
  /\ Rerun(Ev("pick_card", k, 0, "", c))

SetSelfPos(p) ==
  /\ p # pos_self
  /\ Rerun(Ev("pos_self", 0, 0, p, <<>>))

AddOpponent(p, t) ==
  /\ Len(villains) < MaxVillains
  /\ p \in Range(remaining_positions(pos_self, villains))
  /\ Rerun(Ev("vill_add", 0, 0, p, <<t>>))

RemoveOpponent(i) ==
  /\ i \in 1..Len(villains)
  /\ Rerun(Ev("vill_del", i, 0, "", <<>>))

SetRowPos(k, j, p) ==
  /\ Rendered(k) /\ j \in 1..Len(flow[STREETS[k]])
  /\ p # flow[STREETS[k]][j].pos
  /\ Rerun(Ev("row_pos", k, j, p, <<>>))

SetRowAct(k, j, a) ==
  /\ Rendered(k) /\ j \in 1..Len(flow[STREETS[k]])
  /\ a # flow[STREETS[k]][j].act
  /\ Rerun(Ev("row_act", k, j, a, <<>>))

SetRowAmt(k, j, t) ==
  /\ Rendered(k) /\ j \in 1..Len(flow[STREETS[k]])
  /\ t # flow[STREETS[k]][j].amt
  /\ Rerun(Ev("row_amt", k, j, "", t))

AddRow(k) ==
  /\ Rendered(k)
  /\ Rerun(Ev("row_add", k, 0, "", <<>>))

DelRow(k, j) ==
  /\ Rendered(k) /\ j \in 1..Len(flow[STREETS[k]])
  /\ Rerun(Ev("row_del", k, j, "", <<>>))

Analyze(env) ==
  /\ raisedAt = 0
  /\ Len(messages) < 2 * MaxPairs
  /\ Rerun(Ev("analyze", 0, 0, env, <<>>))

ChatInput(q) ==
  /\ raisedAt = 0 /\ show_chat
  /\ Len(messages) < 2 * MaxPairs
  /\ Rerun(Ev("chat", 0, 0, q, <<>>))

----------------------------------------------------------------------------
\* The state after the first run of the script on an empty session_state

Init ==
  /\ cards = resolve_slots([k \in 1..Len(SLOTS) |-> NoCard], <<>>)
  /\ pos_self = POS_ALL[6]
  /\ villains = <<>>
  /\ flow = InitialFlow
  /\ messages = <<>>
  /\ show_chat = FALSE
  /\ raisedAt = 0
  /\ last = [kind |-> "load", i |-> 0, s |-> ""]
  /\ outcomes = {}
  /\ steps = 0
  /\ arg = NoArg
  /\ ret = <<>>

\* Card selection
NextCards == \E k \in 1..Len(SLOTS) : \E c \in Range(ALL_CARDS) : SelectCard(k, c)

SpecCards == Init /\ [][NextCards]_vars

\* Self-position and opponents
NextOpp ==
  \/ \E p \in Range(POS_ALL) : SetSelfPos(p)
  \/ \E p \in Range(POS_ALL) : \E t \in TypeInputs : AddOpponent(p, t)
  \/ \E i \in 1..MaxVillains : RemoveOpponent(i)

SpecOpp == Init /\ [][NextOpp]_vars

\* Opponents, the self-position moving between two seats only
NextVillains ==
  \/ \E p \in SelfPosInputs : SetSelfPos(p)
  \/ \E p \in Range(POS_ALL) : \E t \in TypeInputs : AddOpponent(p, t)
  \/ \E i \in 1..MaxVillains : RemoveOpponent(i)

SpecVillains == Init /\ [][NextVillains]_vars

\* Action rows
NextFlow ==
  \E k \in 1..Len(STREETS) :
    \/ AddRow(k)
    \/ \E j \in 1..(MaxEvents + 1) : DelRow(k, j)
    \/ \E j \in 1..(MaxEvents + 1) : \E p \in RowPosInputs : SetRowPos(k, j, p)
    \/ \E j \in 1..(MaxEvents + 1) : \E a \in RowActInputs(k) : SetRowAct(k, j, a)
    \/ \E j \in 1..(MaxEvents + 1) : \E t \in AmtInputs : SetRowAmt(k, j, t)

SpecFlow == Init /\ [][NextFlow]_vars

\* Analysis and chat, with amounts being edited in between
NextChat ==
  \/ \E env \in Envs : Analyze(env)
  \/ \E q \in ChatInputs : ChatInput(q)
  \/ \E k \in 1..Len(STREETS) : \E t \in AmtInputs : SetRowAmt(k, 1, t)

SpecChat == Init /\ [][NextChat]_vars

----------------------------------------------------------------------------
\* Direct calls of the pure functions, on every raw amount up to a length

Strings(n) == UNION {[1..m -> Alphabet] : m \in 0..n}

AllPositions == Range(POS_ALL) \cup {"Hero"}
AllActions == Range(ACTIONS_PRE) \cup Range(ACTIONS_POST)

InitAmount ==
  /\ Init!1 /\ Init!2 /\ Init!3 /\ Init!4 /\ Init!5 /\ Init!6
  /\ Init!7 /\ Init!8 /\ Init!9 /\ Init!10
  /\ arg \in {[fn |-> "validate_amount", pos |-> "", act |-> "", amt |-> t] :
                t \in Strings(MaxLen)}
  /\ ret = <<>>

CallValidateAmount ==
  /\ arg.fn = "validate_amount" /\ ret = <<>>
  /\ ret' = <<validate_amount(arg.amt)>>
  /\ UNCHANGED <<cards, pos_self, villains, flow, messages, show_chat, raisedAt,
                 last, outcomes, steps, arg>>

SpecAmount == InitAmount /\ [][CallValidateAmount]_vars

InitLine ==
  /\ Init!1 /\ Init!2 /\ Init!3 /\ Init!4 /\ Init!5 /\ Init!6
  /\ Init!7 /\ Init!8 /\ Init!9 /\ Init!10
  /\ arg \in {[fn |-> "normalize_line", pos |-> p, act |-> a, amt |-> t] :
                p \in AllPositions, a \in AllActions, t \in Strings(MaxLineLen)}
  /\ ret = <<>>

CallNormalizeLine ==
  /\ arg.fn = "normalize_line" /\ ret = <<>>
  /\ ret' = <<normalize_line(arg.pos, arg.act, arg.amt)>>
  /\ UNCHANGED <<cards, pos_self, villains, flow, messages, show_chat, raisedAt,
                 last, outcomes, steps, arg>>

SpecLine == InitLine /\ [][CallNormalizeLine]_vars

----------------------------------------------------------------------------
\* Properties

\* The street blocks are stable: run on the rows as they stand, with no row event,
\* they leave the rows unchanged and end where the last run ended (see streets_of_run).
StreetsStable == run_streets(1, flow, NoEvent) = [flow |-> flow, raisedAt |-> raisedAt]

\* The first card of the catalog that is not in the set used
FirstFree(used) ==
  ALL_CARDS[CHOOSE i \in 1..Len(ALL_CARDS) :
              /\ ALL_CARDS[i] \notin used
              /\ \A m \in 1..(i - 1) : ALL_CARDS[m] \in used]

SlotsDistinct ==
  \A a, b \in 1..Len(SLOTS) : a # b => cards[a] # cards[b]

ChoicesNonEmpty ==
  \A k \in 1..Len(SLOTS) : selectable_cards(used_cards(cards, k)) # <<>>

\* A slot whose stored card an earlier slot now uses gets the first catalog card
\* that no earlier slot uses
ReResolved ==
  \A k \in 1..Len(SLOTS) :
    cards[k] \in used_cards(cards', k) => cards'[k] = FirstFree(used_cards(cards', k))

\* C1: after every card-selection event and its render pass the seven slots hold
\* pairwise distinct cards, every slot has at least one choice, and a slot whose
\* stored card is now held by an earlier slot is re-resolved to the first catalog
\* card that no earlier slot uses.
C1_CardsDistinct ==
  /\ [](SlotsDistinct /\ ChoicesNonEmpty)
  /\ [][ReResolved]_vars

\* C1 witness: hero_c1 was changed to the card flop_1 held, and flop_1 fell back
\* to the first free card of the catalog.
C1_Witness ==
  /\ last.kind = "pick_card"
  /\ cards[1] = ALL_CARDS[3]
  /\ cards[3] = ALL_CARDS[1]

\* C2: no two opponents share a position and no opponent sits at the
\* self-position, in every reachable state.
C2_PositionsUnique ==
  /\ \A a, b \in 1..Len(villains) : a # b => villains[a].pos # villains[b].pos
  /\ \A a \in 1..Len(villains) : villains[a].pos # pos_self

\* The raw amount with leading and trailing whitespace trimmed and commas removed
CleanedAmount(raw) ==
  LET keep == {i \in 1..Len(raw) : raw[i] # " "}
      lo   == CHOOSE i \in keep : \A m \in keep : i <= m
      hi   == CHOOSE i \in keep : \A m \in keep : m <= i
      core == IF keep = {} THEN <<>> ELSE SubSeq(raw, lo, hi)
  IN  SelectSeq(core, LAMBDA c : c # ",")

\* A non-empty string of decimal digits whose integer value is strictly positive
IsPositiveInteger(t) ==
  /\ t # <<>>
  /\ \A i \in 1..Len(t) : t[i] \in {"0", "2"}
  /\ \E i \in 1..Len(t) : t[i] # "0"

\* C3: for an action outside {check, fold, call}, normalize_line returns invalid
\* (not ok, no text, a non-empty error) whenever the cleaned amount is empty or is
\* not a positive integer string.
C3_AmountRequired ==
  (/\ ret # <<>>
   /\ arg.fn = "normalize_line"
   /\ arg.act \notin {"check", "fold", "call"}
   /\ ~IsPositiveInteger(CleanedAmount(arg.amt)))
  => (/\ ~ret[1].exc
      /\ ~ret[1].ok
      /\ ret[1].text = None
      /\ ret[1].err # "")

\* What C4 says validate_amount returns
ExpectedAmount(raw) ==
  LET c == CleanedAmount(raw)
  IN  IF c = <<>> THEN AmountResult(TRUE, <<>>)
      ELSE IF IsPositiveInteger(c) THEN AmountResult(TRUE, c)
      ELSE AmountResult(FALSE, None)

\* C4: validate_amount returns (True, "") for an empty cleaned string, (True,
\* cleaned) for a positive integer string of decimal digits, and (False, None) in
\* every other case.
C4_NormalizeAmount ==
  (ret # <<>> /\ arg.fn = "validate_amount") => ret[1] = ExpectedAmount(arg.amt)

\* A row that C5 lets into the flow text: its action needs no amount, or its
\* amount is a positive integer
RowShown(r) ==
  r.act \in {"check", "fold", "call"} \/ IsPositiveInteger(CleanedAmount(r.amt))

RECURSIVE ShownTexts(_)
ShownTexts(rows) ==
  IF rows = <<>> THEN <<>>
  ELSE (IF RowShown(rows[1])
        THEN <<normalize_line(rows[1].pos, rows[1].act, rows[1].amt).text>>
        ELSE <<>>) \o ShownTexts(Tail(rows))

RECURSIVE Joined(_)
Joined(texts) ==
  IF Len(texts) = 1 THEN texts[1] ELSE texts[1] \o <<" / ">> \o Joined(Tail(texts))

ExpectedLine(rows) ==
  IF ShownTexts(rows) = <<>> THEN <<"(none)">> ELSE Joined(ShownTexts(rows))

\* C5: build_flow_text emits the four street blocks in the order preflop, flop,
\* turn, river; each line is the texts of the street's valid rows in insertion
\* order joined with " / ", or the placeholder when there is none; a row whose
\* action needs an amount and whose amount is empty or not a positive integer
\* never appears.
C5_FlowText ==
  build_flow_text(flow) =
    <<"#", "pre", ":">> \o ExpectedLine(flow["pre"])
    \o <<"#", "flop", ":">> \o ExpectedLine(flow["flop"])
    \o <<"#", "turn", ":">> \o ExpectedLine(flow["turn"])
    \o <<"#", "river", ":">> \o ExpectedLine(flow["river"])

\* C6: whenever normalize_line returns valid, its text is "<pos> <act>" followed
\* by one space and the cleaned amount when that amount is non-empty (for every
\* action, check, fold and call included), and exactly "<pos> <act>" when the
\* cleaned amount is empty.
C6_RenderedText ==
  (ret # <<>> /\ arg.fn = "normalize_line" /\ ret[1].ok)
  => LET c == CleanedAmount(arg.amt)
     IN  /\ c = <<>> => ret[1].text = <<arg.pos, " ", arg.act>>
         /\ IsPositiveInteger(c) => ret[1].text = <<arg.pos, " ", arg.act, " ">> \o c

IsPrefix(a, b) == Len(a) <= Len(b) /\ SubSeq(b, 1, Len(a)) = a

Succeeded == outcomes \cap {"reply", "empty_reply"} # {}

\* C7 as stated: the history only grows by appending, and it is empty, with the
\* chat gate closed, in every state in which no advisory request has succeeded.
C7_HistoryAfterSuccess ==
  /\ [][IsPrefix(messages, messages')]_vars
  /\ [](~Succeeded => (messages = <<>> /\ ~show_chat))

\* C7 amended: the history only grows by appending, and it is empty, with the chat
\* gate closed, in every state in which no analysis has run to its end yet,
\* whatever call_gpt returned (a warning and an error message start it too).
C7_HistoryAfterAnalyze ==
  /\ [][IsPrefix(messages, messages')]_vars
  /\ []((outcomes = {}) => (messages = <<>> /\ ~show_chat))

\* C7 witness: two analyses, both without a credential, have put four messages
\* into the history.
C7_Witness ==
  /\ outcomes = {"no_key"}
  /\ Len(messages) = 4
  /\ show_chat

\* C8: every analysis, whatever call_gpt returns, ends without raising, appends a
\* "user" message and then an "assistant" message carrying the returned string,
\* opens the chat gate, and leaves the cards, the self-position, the opponents and
\* the action rows as they were.
C8_AnalyzeAppendsTwo ==
  [][last'.kind = "analyze" =>
       /\ raisedAt' = 0
       /\ Len(messages') = Len(messages) + 2
       /\ SubSeq(messages', 1, Len(messages)) = messages
       /\ messages'[Len(messages) + 1].role = "user"
       /\ messages'[Len(messages) + 2] =
            [role |-> "assistant", content |-> call_gpt(last'.s)]
       /\ show_chat'
       /\ UNCHANGED <<cards, pos_self, villains, flow>>]_vars

\* C8 witness: an analysis that ended in a provider error followed an earlier
\* analysis, on rows whose amounts had been edited.
C8_Witness ==
  /\ last.kind = "analyze"
  /\ last.s = "provider_error"
  /\ Len(messages) = 4
  /\ messages[4].content = "LLM call error: e"
  /\ flow["flop"][1].amt = <<"2">>

\* The add button of street k appended exactly one row, all else in place
AppendedTo(k) ==
  /\ Len(flow'[STREETS[k]]) = Len(flow[STREETS[k]]) + 1
  /\ SubSeq(flow'[STREETS[k]], 1, Len(flow[STREETS[k]])) = flow[STREETS[k]]
  /\ \A m \in 1..Len(STREETS) : m # k => flow'[STREETS[m]] = flow[STREETS[m]]

NewRow(k) == flow'[STREETS[k]][Len(flow[STREETS[k]]) + 1]

\* C9 as stated: the add button appends one row at the end of its street and
\* leaves every other row alone; the new row is at UTG (preflop) or Hero
\* (postflop), has an empty amount and an action of the street's vocabulary that
\* needs no amount, and normalize_line accepts it.
C9_NewRowNeedsNoAmount ==
  [][last'.kind = "row_add" =>
       LET k == last'.i
       IN  /\ AppendedTo(k)
           /\ NewRow(k).pos = (IF k = 1 THEN "UTG" ELSE "Hero")
           /\ NewRow(k).amt = <<>>
           /\ NewRow(k).act \in {"check", "fold", "call"}
           /\ NewRow(k).act \in Range(ActionsOf(k))
           /\ normalize_line(NewRow(k).pos, NewRow(k).act, NewRow(k).amt).ok]_vars

\* C9 amended: the add button appends one row at the end of its street and leaves
\* every other row alone; the new row has an empty amount and is (UTG, open) for
\* preflop, open being an action that needs an amount, and (Hero, check) for flop,
\* turn and river, which normalize_line renders as "Hero check".
C9_NewRowDefaults ==
  [][last'.kind = "row_add" =>
       LET k == last'.i
       IN  /\ AppendedTo(k)
           /\ NewRow(k).amt = <<>>
           /\ k = 1 => /\ NewRow(k).pos = "UTG"
                       /\ NewRow(k).act = "open"
                       /\ NewRow(k).act \notin {"check", "fold", "call"}
           /\ k # 1 => /\ NewRow(k).pos = "Hero"
                       /\ NewRow(k).act = "check"
                       /\ normalize_line("Hero", "check", <<>>) =
                            LineResult(TRUE, <<"Hero", " ", "check">>, "")]_vars

\* C9 witness: a row was added to the flop after its first row had been given an
\* amount; the flop holds the edited row followed by the new one.
C9_Witness ==
  /\ last.kind = "row_add"
  /\ last.i = 2
  /\ flow["flop"] = <<Row("Hero", "bet", <<"2">>), Row("Hero", "check", <<>>)>>

\* C10: the delete button of opponent i removes exactly the i-th opponent, the
\* others keeping their (position, type) pairs and their order, and leaves the
\* self-position, the cards, the action rows and the history as they were.
C10_RemoveExactlyIth ==
  [][last'.kind = "vill_del" =>
       LET i == last'.i
       IN  /\ i \in 1..Len(villains)
           /\ Len(villains') = Len(villains) - 1
           /\ \A m \in 1..(i - 1) : villains'[m] = villains[m]
           /\ \A m \in i..(Len(villains) - 1) : villains'[m] = villains[m + 1]
           /\ UNCHANGED <<pos_self, cards, flow, messages>>]_vars

\* C10 witness: the middle one of three opponents was removed; the former first
\* and third are now first and second.
C10_Witness ==
  /\ last.kind = "vill_del"
  /\ last.i = 2
  /\ villains = <<[pos |-> "UTG", type |-> "tight-passive"],
                  [pos |-> "CO", type |-> "tight-aggressive"]>>

====
